---- MODULE Spec2Model ----
(***************************************************************************)
(* Model of pkg/controller/operands/kubevirt.go: the desired-state         *)
(* builders of the KubeVirt CR, the kubevirt-config ConfigMap and the      *)
(* KubeVirt PriorityClass, the feature-gate resolver, and the three        *)
(* operand hooks (getFullCr / reset / updateCr).                           *)
(*                                                                         *)
(* Conventions                                                             *)
(*   - a Go pointer is a sequence of length <= 1: Nil is <<>>, a pointer   *)
(*     to x is <<x>>;                                                      *)
(*   - a Go string that the code trims, parses, joins or stores verbatim   *)
(*     is a sequence of tokens (SP is one white-space character, any other *)
(*     token is a run of non-blank characters); "" is <<>>;                *)
(*   - a Go map[string]string is a function from its key set to values;   *)
(*     a read of a missing key yields "" (Lookup);                         *)
(*   - an error is a string, NoErr ("") standing for a nil error;          *)
(*   - an operation whose result depends on Go's randomised map iteration  *)
(*     order is a set of possible results.                                 *)
(***************************************************************************)
EXTENDS Naturals, Integers, Sequences, FiniteSets, TLC

VARIABLES
    hc,         \* the parent record (HyperConverged CR) handed to the hooks
    env,        \* the process environment: KVM_EMULATION, SMBIOS, MACHINETYPE
    ret,        \* what the last operation returned
    prev,       \* what the operation before it returned
    cache,      \* kubevirtHooks.cache
    hist        \* history of the KubeVirt hook since its last reset: the object
                \* its first successful getFullCr returned (first), and whether
                \* a getFullCr has failed (failed)

VARIABLES
    kind,       \* the operand the handler under study manages
    request,    \* the request of the pass in progress: HCOTriggered, UpgradeMode
    phase,      \* where the pass in progress stands
    desired,    \* the desired object of the pass in progress
    fetched,    \* the live object as the pass in progress fetched it
    live,       \* the operand's object on the cluster (Nil when absent)
    nEdit       \* writes by others than the handler

inputs == <<hc, env>>
hookVars == <<cache, hist>>
passVars == <<kind, request, phase, desired, fetched, live, nEdit>>
vars == <<hc, env, ret, prev, cache, hist, kind, request, phase, desired, fetched, live,
          nEdit>>

Nil == <<>>
Ptr(x) == <<x>>
NoErr == ""
SP == " "

(***************************************************************************)
(* Constants of the source.                                                *)
(***************************************************************************)
kubevirtDefaultNetworkInterfaceValue == <<"masquerade">>
FeatureGatesKey == "feature-gates"
MachineTypeKey == "machine-type"
UseEmulationKey == "debug.useEmulation"
MigrationsConfigKey == "migrations"
NetworkInterfaceKey == "default-network-interface"
SmbiosConfigKey == "smbios"
SELinuxLauncherTypeKey == "selinuxLauncherType"

kvmEmulationEnvName == "KVM_EMULATION"
smbiosEnvName == "SMBIOS"
machineTypeEnvName == "MACHINETYPE"

kvDataVolumesGate == "DataVolumes"
kvSRIOVGate == "SRIOV"
kvLiveMigrationGate == "LiveMigration"
kvCPUManagerGate == "CPUManager"
kvCPUNodeDiscoveryGate == "CPUNodeDiscovery"
kvSidecarGate == "Sidecar"
kvSnapshotGate == "Snapshot"

hardCodeKvFgs ==
    << kvDataVolumesGate, kvSRIOVGate, kvLiveMigrationGate, kvCPUManagerGate,
       kvCPUNodeDiscoveryGate, kvSidecarGate, kvSnapshotGate >>

HotplugVolumesGate == "HotplugVolumes"
kvWithHostPassthroughCPU == "WithHostPassthroughCPU"
kvWithHostModelCPU == "WithHostModelCPU"
SRIOVLiveMigrationGate == "SRIOVLiveMigration"
kvHypervStrictCheck == "HypervStrictCheck"
GPUGate == "GPU"
HostDevicesGate == "HostDevices"
SELinuxLauncherType == <<"virt_launcher.process">>

(***************************************************************************)
(* Helpers on sequences and maps.                                          *)
(***************************************************************************)
Range(s) == { s[i] : i \in 1..Len(s) }

\* Go's m[k] on a map[string]string: the zero value "" for a missing key.
Lookup(m, k) == IF k \in DOMAIN m THEN m[k] ELSE <<>>

\* Go's m[k] = v: adds the key or overwrites its value.
Store(m, k, v) == [x \in (DOMAIN m) \cup {k} |-> IF x = k THEN v ELSE m[x]]

\* Go's delete(m, k).
Delete(m, k) == [x \in (DOMAIN m) \ {k} |-> m[x]]

RECURSIVE Perms(_)
\* Every order in which the elements of the finite set S can be visited.
Perms(S) ==
    IF S = {} THEN { <<>> }
    ELSE UNION { { <<x>> \o p : p \in Perms(S \ {x}) } : x \in S }

(***************************************************************************)
(* The parent record's feature-gate accessors.  The HyperConverged API     *)
(* type lives in pkg/apis/hco/v1beta1; FeatureGates is modelled as the set *)
(* of the API fields that are set to true (a nil pointer is the empty set).*)
(***************************************************************************)
FGFields ==
    { "HotplugVolumes", "WithHostPassthroughCPU", "WithHostModelCPU",
      "SRIOVLiveMigration", "HypervStrictCheck", "GPU", "HostDevices" }

IsHotplugVolumesEnabled(featureGates) == "HotplugVolumes" \in featureGates
IsWithHostPassthroughCPUEnabled(featureGates) == "WithHostPassthroughCPU" \in featureGates
IsWithHostModelCPUEnabled(featureGates) == "WithHostModelCPU" \in featureGates
IsSRIOVLiveMigrationEnabled(featureGates) == "SRIOVLiveMigration" \in featureGates
IsHypervStrictCheckEnabled(featureGates) == "HypervStrictCheck" \in featureGates
IsGPUAssignmentEnabled(featureGates) == "GPU" \in featureGates
IsHostDevicesAssignmentEnabled(featureGates) == "HostDevices" \in featureGates

\* The map from gate name to the value its accessor returns when called.
getFeatureGateChecks(featureGates) ==
    (HotplugVolumesGate :> IsHotplugVolumesEnabled(featureGates)) @@
    (kvWithHostPassthroughCPU :> IsWithHostPassthroughCPUEnabled(featureGates)) @@
    (kvWithHostModelCPU :> IsWithHostModelCPUEnabled(featureGates)) @@
    (SRIOVLiveMigrationGate :> IsSRIOVLiveMigrationEnabled(featureGates)) @@
    (kvHypervStrictCheck :> IsHypervStrictCheckEnabled(featureGates)) @@
    (GPUGate :> IsGPUAssignmentEnabled(featureGates)) @@
    (HostDevicesGate :> IsHostDevicesAssignmentEnabled(featureGates))

\* getKvFeatureGateList without the "if check()" test: every gate of the map
\* is appended.
getKvFeatureGateList_unchecked(fgs) ==
    LET checks == getFeatureGateChecks(fgs)
    IN  { hardCodeKvFgs \o tail : tail \in Perms(DOMAIN checks) }

\* getKvFeatureGateList that puts the enabled gates before the fixed ones.
getKvFeatureGateList_prepends(fgs) ==
    LET checks == getFeatureGateChecks(fgs)
        enabled == { gate \in DOMAIN checks : checks[gate] }
    IN  { head \o hardCodeKvFgs : head \in Perms(enabled) }

\* The possible results of getKvFeatureGateList: res starts as a copy of
\* hardCodeKvFgs; "for gate, check := range checks" visits the keys of a Go map
\* in an order the runtime randomises, appending each gate whose check is true,
\* so the tail is some order of the enabled gates, and every order can occur.
getKvFeatureGateList(fgs) ==
    LET checks == getFeatureGateChecks(fgs)
        enabled == { gate \in DOMAIN checks : checks[gate] }
    IN  { hardCodeKvFgs \o tail : tail \in Perms(enabled) }

(***************************************************************************)
(* Strings of the environment: strings.TrimSpace, strconv.ParseBool and    *)
(* the YAML/JSON decoder applied to the SMBIOS payload.                    *)
(***************************************************************************)
RECURSIVE TrimLeft(_)
TrimLeft(s) == IF s # <<>> /\ Head(s) = SP THEN TrimLeft(Tail(s)) ELSE s

RECURSIVE TrimRight(_)
TrimRight(s) ==
    IF s # <<>> /\ s[Len(s)] = SP THEN TrimRight(SubSeq(s, 1, Len(s) - 1)) ELSE s

TrimSpace(s) == TrimRight(TrimLeft(s))

\* strconv.ParseBool: the twelve spellings it accepts, an error for anything else.
ParseBool(s) ==
    IF Len(s) = 1 /\ s[1] \in {"1", "t", "T", "TRUE", "true", "True"}
        THEN [val |-> TRUE, err |-> NoErr]
    ELSE IF Len(s) = 1 /\ s[1] \in {"0", "f", "F", "FALSE", "false", "False"}
        THEN [val |-> FALSE, err |-> NoErr]
    ELSE [val |-> FALSE, err |-> "strconv.ParseBool: invalid syntax"]

\* Decode of the trimmed SMBIOS payload into a SMBiosConfiguration: a payload
\* that is one well-formed document decodes to its fields, any other fails.
DecodeSMBIOS(s) ==
    IF s = <<"Family: KubeVirt">>
        THEN [val |-> [Family |-> "KubeVirt", Manufacturer |-> ""], err |-> NoErr]
    ELSE IF s = <<"Manufacturer: Acme">>
        THEN [val |-> [Family |-> "", Manufacturer |-> "Acme"], err |-> NoErr]
    ELSE [val |-> [Family |-> "", Manufacturer |-> ""], err |-> "yaml: cannot unmarshal"]

\* os.LookupEnv: the value and whether the variable is set.
LookupEnv(name) == env[name]

Unset == [val |-> <<>>, ok |-> FALSE]
Set(v) == [val |-> v, ok |-> TRUE]

(***************************************************************************)
(* Helpers of the package that live in other files (operand.go, pkg/util). *)
(***************************************************************************)
\* getLabels: the ownership label set; its only parent-derived part is the name.
getLabels(parent, component) == [app |-> parent.Name, component |-> component]

AppComponentCompute == "compute"

\* getNamespace: the first option when one is given, the default otherwise.
getNamespace(defaultNamespace, opts) ==
    IF Len(opts) > 0 THEN opts[1] ELSE defaultNamespace

\* The patch the parent's annotation carries: absent, a well-formed patch
\* (here: replace /configuration/machineType), or a malformed one.
PatchedMachineType == <<"pc-patched">>

applyPatchToSpec(parent, kv) ==
    IF parent.Patch = "none" THEN [obj |-> kv, err |-> NoErr]
    ELSE IF parent.Patch = "replace-machineType"
        THEN [obj |-> [kv EXCEPT !.Spec.Configuration.MachineType = PatchedMachineType],
              err |-> NoErr]
    ELSE [obj |-> kv, err |-> "invalid jsonPatch in the annotation"]

(***************************************************************************)
(* Desired-state builder of the KubeVirt CR.                               *)
(***************************************************************************)
\* getKVDevConfig with the error of strconv.ParseBool dropped.
getKVDevConfig_ignoresParseError(parent) ==
    { LET kvmEmulationStr == LookupEnv(kvmEmulationEnvName)
          trimmed == TrimSpace(kvmEmulationStr.val)
          kvmEmulation ==
              kvmEmulationStr.ok /\ trimmed # <<>> /\ ParseBool(trimmed).val
      IN  IF Len(fgs) > 0 \/ kvmEmulation
              THEN [dev |-> Ptr([FeatureGates |-> fgs, UseEmulation |-> kvmEmulation]),
                    err |-> NoErr]
          ELSE [dev |-> Nil, err |-> NoErr]
      : fgs \in getKvFeatureGateList(parent.FeatureGates) }

\* getKVDevConfig: (devConfig, err), one per possible gate order.
getKVDevConfig(parent) ==
    { LET kvmEmulationStr == LookupEnv(kvmEmulationEnvName)
          trimmed == TrimSpace(kvmEmulationStr.val)
          parsed ==
              IF kvmEmulationStr.ok /\ trimmed # <<>>
                  THEN ParseBool(trimmed)
                  ELSE [val |-> FALSE, err |-> NoErr]
          kvmEmulation == parsed.val
      IN  IF parsed.err # NoErr
              THEN [dev |-> Nil, err |-> parsed.err]
          ELSE IF Len(fgs) > 0 \/ kvmEmulation
              THEN [dev |-> Ptr([FeatureGates |-> fgs, UseEmulation |-> kvmEmulation]),
                    err |-> NoErr]
          ELSE [dev |-> Nil, err |-> NoErr]
      : fgs \in getKvFeatureGateList(parent.FeatureGates) }

\* getKVConfig: (config, err); on an SMBIOS decode error the partly filled
\* config is returned together with the error.
getKVConfig(parent) ==
    { IF d.err # NoErr THEN [config |-> Nil, err |-> d.err]
      ELSE
        LET config0 ==
                [ DeveloperConfiguration |-> d.dev,
                  SELinuxLauncherType |-> SELinuxLauncherType,
                  NetworkConfiguration |-> Ptr([NetworkInterface |-> <<"masquerade">>]),
                  SMBIOSConfig |-> Nil,
                  MachineType |-> <<>> ]
            smbiosConfig == LookupEnv(smbiosEnvName)
            smbiosTrimmed == TrimSpace(smbiosConfig.val)
            decoded == DecodeSMBIOS(smbiosTrimmed)
            hasSmbios == smbiosConfig.ok /\ smbiosTrimmed # <<>>
            config1 ==
                IF hasSmbios
                    THEN [config0 EXCEPT !.SMBIOSConfig = Ptr(decoded.val)]
                    ELSE config0
            val == LookupEnv(machineTypeEnvName)
            valTrimmed == TrimSpace(val.val)
            config2 ==
                IF val.ok /\ valTrimmed # <<>>
                    THEN [config1 EXCEPT !.MachineType = valTrimmed]
                    ELSE config1
        IN  IF hasSmbios /\ decoded.err # NoErr
                THEN [config |-> Ptr(config1), err |-> decoded.err]
                ELSE [config |-> Ptr(config2), err |-> NoErr]
      : d \in getKVDevConfig(parent) }

\* hcoConfig2KvConfig: a deep copy of the node placement, nil when there is none.
hcoConfig2KvConfig(hcoConfig) ==
    IF hcoConfig.NodePlacement # Nil
        THEN LET np == hcoConfig.NodePlacement[1]
             IN  Ptr([NodePlacement |->
                        Ptr([ Affinity |-> IF np.Affinity # Nil THEN Ptr(np.Affinity[1]) ELSE Nil,
                              NodeSelector |-> np.NodeSelector,
                              Tolerations |-> [i \in 1..Len(np.Tolerations) |-> np.Tolerations[i]] ])])
        ELSE Nil

\* NewKubeVirtWithNameOnly: the object's identity and labels, everything else zero.
NewKubeVirtWithNameOnly(parent, opts) ==
    [ Kind |-> "KubeVirt",
      Name |-> <<"kubevirt-", parent.Name>>,
      Labels |-> getLabels(parent, AppComponentCompute),
      Namespace |-> getNamespace(parent.Namespace, opts),
      Annotations |-> <<>>,
      ResourceVersion |-> 0,
      Spec |-> Nil,
      Status |-> Nil ]

\* NewKubeVirt: (kv, err), one per possible gate order; nil object on any error.
NewKubeVirt(parent) ==
    { IF c.err # NoErr THEN [obj |-> Nil, err |-> c.err]
      ELSE
        LET spec ==
                [ UninstallStrategy |-> "BlockUninstallIfWorkloadsExist",
                  Infra |-> hcoConfig2KvConfig(parent.Infra),
                  Workloads |-> hcoConfig2KvConfig(parent.Workloads),
                  Configuration |-> c.config[1] ]
            kv == [NewKubeVirtWithNameOnly(parent, <<>>) EXCEPT !.Spec = spec]
            patched == applyPatchToSpec(parent, kv)
        IN  IF patched.err # NoErr
                THEN [obj |-> Nil, err |-> patched.err]
                ELSE [obj |-> Ptr(patched.obj), err |-> NoErr]
      : c \in getKVConfig(parent) }

(***************************************************************************)
(* kubevirtHooks: the cached desired object.                               *)
(***************************************************************************)
\* getFullCr: the possible (cache after the call, returned object, error).
kubevirtHooks_getFullCr(h_cache, parent) ==
    IF h_cache = Nil
        THEN { IF r.err # NoErr
                   THEN [cache |-> h_cache, obj |-> Nil, err |-> r.err]
                   ELSE [cache |-> r.obj, obj |-> r.obj, err |-> NoErr]
               : r \in NewKubeVirt(parent) }
        ELSE { [cache |-> h_cache, obj |-> h_cache, err |-> NoErr] }

\* reset that leaves the cache as it is.
kubevirtHooks_reset_keepsCache(h_cache) == h_cache

\* reset: the cache after the call.
kubevirtHooks_reset(h_cache) == Nil

(***************************************************************************)
(* Desired-state builders of the kubevirt-config ConfigMap and of the      *)
(* KubeVirt PriorityClass.                                                 *)
(***************************************************************************)
RECURSIVE Join(_, _)
\* strings.Join: the elements with the separator between neighbours.
Join(elems, sep) ==
    IF Len(elems) = 0 THEN <<>>
    ELSE IF Len(elems) = 1 THEN <<elems[1]>>
    ELSE <<elems[1], sep>> \o Join(Tail(elems), sep)

\* NewKubeVirtConfigForCR: one ConfigMap per possible gate order.  The
\* environment values are stored as read: not trimmed, not parsed.
NewKubeVirtConfigForCR(cr, namespace) ==
    { LET featureGates == Join(fgs, ",")
          data0 ==
              (FeatureGatesKey :> featureGates) @@
              (SELinuxLauncherTypeKey :> <<"virt_launcher.process">>) @@
              (NetworkInterfaceKey :> kubevirtDefaultNetworkInterfaceValue)
          smbios == LookupEnv(smbiosEnvName)
          data1 ==
              IF smbios.ok /\ smbios.val # <<>>
                  THEN Store(data0, SmbiosConfigKey, smbios.val) ELSE data0
          machineType == LookupEnv(machineTypeEnvName)
          data2 ==
              IF machineType.ok /\ machineType.val # <<>>
                  THEN Store(data1, MachineTypeKey, machineType.val) ELSE data1
          kvmEmulation == LookupEnv(kvmEmulationEnvName)
          data3 ==
              IF kvmEmulation.ok /\ kvmEmulation.val # <<>>
                  THEN Store(data2, UseEmulationKey, kvmEmulation.val) ELSE data2
      IN  [ Kind |-> "ConfigMap",
            Name |-> <<"kubevirt-config">>,
            Labels |-> getLabels(cr, AppComponentCompute),
            Namespace |-> namespace,
            ResourceVersion |-> 0,
            DataIsNil |-> FALSE,
            Data |-> data3 ]
      : fgs \in getKvFeatureGateList(cr.FeatureGates) }

\* NewKubeVirtPriorityClass: a fixed object but for the ownership labels.
NewKubeVirtPriorityClass(parent) ==
    [ Kind |-> "PriorityClass",
      APIVersion |-> "scheduling.k8s.io/v1",
      Name |-> <<"kubevirt-cluster-critical">>,
      Labels |-> getLabels(parent, AppComponentCompute),
      ResourceVersion |-> 0,
      Value |-> 1000000000,
      GlobalDefault |-> FALSE,
      Description |-> "This priority class should be used for KubeVirt core components only." ]

(***************************************************************************)
(* The cluster API client (controller-runtime), as the hooks use it.  The  *)
(* cluster holds at most one object of the operand's kind and name (obj).  *)
(* Resource versions are opaque and only ever compared for equality: a     *)
(* write stores the object under a version that neither the object it      *)
(* replaces nor a copy the handler still holds (held) carries.  An Update  *)
(* is rejected with a conflict when the submitted resourceVersion is not   *)
(* the stored one; a Delete with empty DeleteOptions carries no            *)
(* precondition; any write can also fail without effect (time-out,         *)
(* throttling).                                                            *)
(***************************************************************************)
ErrNotFound == "NotFound"
ErrConflict == "Conflict"
ErrAlreadyExists == "AlreadyExists"
ErrTransient == "ServerTimeout"

Versions == 1..3

VersionsOf(objPtr) == { objPtr[i].ResourceVersion : i \in 1..Len(objPtr) }

\* The resource version the server gives the next object it stores.
NextVersion(cl) ==
    CHOOSE v \in Versions \ (VersionsOf(cl.obj) \cup cl.held) :
        \A w \in Versions \ (VersionsOf(cl.obj) \cup cl.held) : v <= w

Stored(cl, obj) ==
    [cl EXCEPT !.obj = Ptr([obj EXCEPT !.ResourceVersion = NextVersion(cl)])]

ClientUpdate(cl, obj) ==
    IF cl.obj = Nil THEN { [cl |-> cl, err |-> ErrNotFound] }
    ELSE IF cl.obj[1].ResourceVersion # obj.ResourceVersion
        THEN { [cl |-> cl, err |-> ErrConflict] }
    ELSE { [cl |-> Stored(cl, obj), err |-> NoErr],
           [cl |-> cl, err |-> ErrTransient] }

ClientDelete(cl, obj) ==
    IF cl.obj = Nil THEN { [cl |-> cl, err |-> ErrNotFound] }
    ELSE { [cl |-> [cl EXCEPT !.obj = Nil, !.held = cl.held \cup VersionsOf(cl.obj)],
            err |-> NoErr],
           [cl |-> cl, err |-> ErrTransient] }

ClientCreate(cl, obj) ==
    IF cl.obj # Nil THEN { [cl |-> cl, err |-> ErrAlreadyExists] }
    ELSE { [cl |-> Stored(cl, obj), err |-> NoErr],
           [cl |-> cl, err |-> ErrTransient] }

\* One client call as the call log keeps it.
Call(verb, obj, err) == [verb |-> verb, obj |-> obj, err |-> err]

\* util.DeepCopyLabels(src, tgt): tgt with the labels of src.
DeepCopyLabels(src, tgt) == [tgt EXCEPT !.Labels = src.Labels]

\* What an updateCr returns, with its effects: the client calls it issued, the
\* cluster after them, and whether it ended in a run-time panic.
Outcome(changed, forced, err, calls, cl) ==
    [ changed |-> changed, forced |-> forced, err |-> err,
      calls |-> calls, cl |-> cl, panic |-> FALSE ]

ErrNilMap == "panic: assignment to entry in nil map"

Panicked(calls, cl) ==
    [ changed |-> FALSE, forced |-> FALSE, err |-> ErrNilMap,
      calls |-> calls, cl |-> cl, panic |-> TRUE ]

(***************************************************************************)
(* kubevirtHooks.updateCr                                                  *)
(***************************************************************************)
\* updateCr that submits the desired object in place of the live one.
kubevirtHooks_updateCr_replacesObject(req, cl, exists, required) ==
    IF required.Kind # "KubeVirt" \/ exists.Kind # "KubeVirt"
        THEN { Outcome(FALSE, FALSE, "can't convert to KubeVirt", <<>>, cl) }
    ELSE
      LET virt == required
          found == exists
      IN  IF found.Spec # virt.Spec \/ found.Labels # virt.Labels
              THEN LET found2 == [virt EXCEPT !.ResourceVersion = found.ResourceVersion]
                   IN  { IF u.err # NoErr
                             THEN Outcome(FALSE, FALSE, u.err,
                                          <<Call("Update", found2, u.err)>>, u.cl)
                             ELSE Outcome(TRUE, ~req.HCOTriggered, NoErr,
                                          <<Call("Update", found2, u.err)>>, u.cl)
                         : u \in ClientUpdate(cl, found2) }
              ELSE { Outcome(FALSE, FALSE, NoErr, <<>>, cl) }

\* updateCr that tries a failed Update a second time.
kubevirtHooks_updateCr_retries(req, cl, exists, required) ==
    IF required.Kind # "KubeVirt" \/ exists.Kind # "KubeVirt"
        THEN { Outcome(FALSE, FALSE, "can't convert to KubeVirt", <<>>, cl) }
    ELSE
      LET virt == required
          found == exists
      IN  IF found.Spec # virt.Spec \/ found.Labels # virt.Labels
              THEN LET found1 == DeepCopyLabels(virt, found)
                       found2 == [found1 EXCEPT !.Spec = virt.Spec]
                   IN  UNION {
                         IF u.err = NoErr
                             THEN { Outcome(TRUE, ~req.HCOTriggered, NoErr,
                                            <<Call("Update", found2, u.err)>>, u.cl) }
                             ELSE { Outcome(v.err = NoErr, v.err = NoErr /\ ~req.HCOTriggered,
                                            v.err,
                                            <<Call("Update", found2, u.err),
                                              Call("Update", found2, v.err)>>, v.cl)
                                    : v \in ClientUpdate(u.cl, found2) }
                         : u \in ClientUpdate(cl, found2) }
              ELSE { Outcome(FALSE, FALSE, NoErr, <<>>, cl) }

kubevirtHooks_updateCr(req, cl, exists, required) ==
    IF required.Kind # "KubeVirt" \/ exists.Kind # "KubeVirt"
        THEN { Outcome(FALSE, FALSE, "can't convert to KubeVirt", <<>>, cl) }
    ELSE
      LET virt == required
          found == exists
      IN  IF found.Spec # virt.Spec \/ found.Labels # virt.Labels
              THEN LET found1 == DeepCopyLabels(virt, found)
                       found2 == [found1 EXCEPT !.Spec = virt.Spec]
                   IN  { IF u.err # NoErr
                             THEN Outcome(FALSE, FALSE, u.err,
                                          <<Call("Update", found2, u.err)>>, u.cl)
                             ELSE Outcome(TRUE, ~req.HCOTriggered, NoErr,
                                          <<Call("Update", found2, u.err)>>, u.cl)
                         : u \in ClientUpdate(cl, found2) }
              ELSE { Outcome(FALSE, FALSE, NoErr, <<>>, cl) }

(***************************************************************************)
(* kvConfigHooks.updateCr and its helpers.  The helpers mutate found in    *)
(* place; here each returns the ConfigMap after it, whether it changed it, *)
(* and whether it panicked writing to a nil Data map.                      *)
(***************************************************************************)
Step(found, changed, panic) == [found |-> found, changed |-> changed, panic |-> panic]

\* found.Data[k] = v
SetData(found, k, v) ==
    IF found.DataIsNil
        THEN Step(found, FALSE, TRUE)
        ELSE Step([found EXCEPT !.Data = Store(found.Data, k, v)], TRUE, FALSE)

kvConfigHooks_forceDefaultValues(found, kubevirtConfig, k) ==
    IF Lookup(found.Data, k) # Lookup(kubevirtConfig.Data, k)
        THEN SetData(found, k, Lookup(kubevirtConfig.Data, k))
        ELSE Step(found, FALSE, FALSE)

ForcedKeys == << SmbiosConfigKey, MachineTypeKey, SELinuxLauncherTypeKey, UseEmulationKey >>

RECURSIVE ForceFrom(_, _, _, _)
\* The loop of forceDefaultKeys from the i-th key on: every key is visited,
\* whatever the earlier ones did, unless a write panics.
ForceFrom(i, found, kubevirtConfig, changed) ==
    IF i > Len(ForcedKeys) THEN Step(found, changed, FALSE)
    ELSE LET one == kvConfigHooks_forceDefaultValues(found, kubevirtConfig, ForcedKeys[i])
         IN  IF one.panic THEN one
             ELSE ForceFrom(i + 1, one.found, kubevirtConfig, one.changed \/ changed)

kvConfigHooks_forceDefaultKeys(found, kubevirtConfig) ==
    ForceFrom(1, found, kubevirtConfig, FALSE)

kvConfigHooks_removeOldKeys(found) ==
    IF MigrationsConfigKey \in DOMAIN found.Data
        THEN Step([found EXCEPT !.Data = Delete(found.Data, MigrationsConfigKey)], TRUE, FALSE)
        ELSE Step(found, FALSE, FALSE)

\* updateDataOnUpgrade that replaces the live data with the desired data.
kvConfigHooks_updateDataOnUpgrade_replacesData(found, kubevirtConfig) ==
    IF found.DataIsNil THEN Step(found, FALSE, TRUE)
    ELSE Step([found EXCEPT !.Data = kubevirtConfig.Data],
              found.Data # kubevirtConfig.Data, FALSE)

kvConfigHooks_updateDataOnUpgrade(found, kubevirtConfig) ==
    LET forced == kvConfigHooks_forceDefaultKeys(found, kubevirtConfig)
    IN  IF forced.panic THEN forced
        ELSE LET removed == kvConfigHooks_removeOldKeys(forced.found)
             IN  Step(removed.found, forced.changed \/ removed.changed, FALSE)

\* updateData that leaves the feature-gates value as it finds it.
kvConfigHooks_updateData_keepsGates(found, required) == Step(found, FALSE, FALSE)

kvConfigHooks_updateData(found, required) ==
    IF Lookup(found.Data, FeatureGatesKey) # Lookup(required.Data, FeatureGatesKey)
        THEN SetData(found, FeatureGatesKey, Lookup(required.Data, FeatureGatesKey))
        ELSE Step(found, FALSE, FALSE)

kvConfigHooks_updateKvConfigMap(req, cl, found) ==
    { IF u.err # NoErr
          THEN Outcome(FALSE, FALSE, u.err, <<Call("Update", found, u.err)>>, u.cl)
          ELSE Outcome(TRUE, FALSE, NoErr, <<Call("Update", found, u.err)>>, u.cl)
      : u \in ClientUpdate(cl, found) }

\* updateCr that forces the upgrade-only keys on every pass.
kvConfigHooks_updateCr_alwaysForces(req, cl, exists, required) ==
    IF required.Kind # "ConfigMap" \/ exists.Kind # "ConfigMap"
        THEN { Outcome(FALSE, FALSE, "can't convert to ConfigMap", <<>>, cl) }
    ELSE
      LET kubevirtConfig == required
          s1 == kvConfigHooks_updateDataOnUpgrade(exists, kubevirtConfig)
          s2 == kvConfigHooks_updateData(s1.found, kubevirtConfig)
          changed2 == s2.changed \/ s1.changed
          labelsDiffer == s2.found.Labels # kubevirtConfig.Labels
          found3 == IF labelsDiffer THEN DeepCopyLabels(kubevirtConfig, s2.found) ELSE s2.found
          changed3 == changed2 \/ labelsDiffer
      IN  IF s1.panic \/ s2.panic THEN { Panicked(<<>>, cl) }
          ELSE IF changed3 THEN kvConfigHooks_updateKvConfigMap(req, cl, found3)
          ELSE { Outcome(FALSE, FALSE, NoErr, <<>>, cl) }

kvConfigHooks_updateCr(req, cl, exists, required) ==
    IF required.Kind # "ConfigMap" \/ exists.Kind # "ConfigMap"
        THEN { Outcome(FALSE, FALSE, "can't convert to ConfigMap", <<>>, cl) }
    ELSE
      LET kubevirtConfig == required
          s1 == IF req.UpgradeMode
                    THEN kvConfigHooks_updateDataOnUpgrade(exists, kubevirtConfig)
                    ELSE Step(exists, FALSE, FALSE)
          s2 == kvConfigHooks_updateData(s1.found, kubevirtConfig)
          changed2 == s2.changed \/ s1.changed
          labelsDiffer == s2.found.Labels # kubevirtConfig.Labels
          found3 == IF labelsDiffer THEN DeepCopyLabels(kubevirtConfig, s2.found) ELSE s2.found
          changed3 == changed2 \/ labelsDiffer
      IN  IF s1.panic \/ s2.panic THEN { Panicked(<<>>, cl) }
          ELSE IF changed3 THEN kvConfigHooks_updateKvConfigMap(req, cl, found3)
          ELSE { Outcome(FALSE, FALSE, NoErr, <<>>, cl) }

(***************************************************************************)
(* kvPriorityClassHooks.updateCr                                           *)
(***************************************************************************)
\* updateCr that reports success although the Create failed.
kvPriorityClassHooks_updateCr_swallowsCreateError(req, cl, exists, required) ==
    IF required.Kind # "PriorityClass" \/ exists.Kind # "PriorityClass"
        THEN { Outcome(FALSE, FALSE, "can't convert to PriorityClass", <<>>, cl) }
    ELSE
      LET pc == required
          found == exists
      IN  IF pc.Name = found.Name /\ pc.Value = found.Value
             /\ pc.Description = found.Description /\ pc.Labels = found.Labels
              THEN { Outcome(FALSE, FALSE, NoErr, <<>>, cl) }
              ELSE UNION {
                     IF d.err # NoErr
                         THEN { Outcome(FALSE, FALSE, d.err,
                                        <<Call("Delete", found, d.err)>>, d.cl) }
                         ELSE { Outcome(TRUE, ~req.HCOTriggered, NoErr,
                                        <<Call("Delete", found, d.err),
                                          Call("Create", pc, c.err)>>, c.cl)
                                : c \in ClientCreate(d.cl, pc) }
                     : d \in ClientDelete(cl, found) }

\* updateCr that patches the live priority class in place.
kvPriorityClassHooks_updateCr_patches(req, cl, exists, required) ==
    IF required.Kind # "PriorityClass" \/ exists.Kind # "PriorityClass"
        THEN { Outcome(FALSE, FALSE, "can't convert to PriorityClass", <<>>, cl) }
    ELSE
      LET pc == [required EXCEPT !.ResourceVersion = exists.ResourceVersion]
          found == exists
      IN  IF pc.Name = found.Name /\ pc.Value = found.Value
             /\ pc.Description = found.Description /\ pc.Labels = found.Labels
              THEN { Outcome(FALSE, FALSE, NoErr, <<>>, cl) }
              ELSE { IF u.err # NoErr
                         THEN Outcome(FALSE, FALSE, u.err,
                                      <<Call("Update", pc, u.err)>>, u.cl)
                         ELSE Outcome(TRUE, ~req.HCOTriggered, NoErr,
                                      <<Call("Update", pc, u.err)>>, u.cl)
                     : u \in ClientUpdate(cl, pc) }

kvPriorityClassHooks_updateCr(req, cl, exists, required) ==
    IF required.Kind # "PriorityClass" \/ exists.Kind # "PriorityClass"
        THEN { Outcome(FALSE, FALSE, "can't convert to PriorityClass", <<>>, cl) }
    ELSE
      LET pc == required
          found == exists
      IN  IF pc.Name = found.Name /\ pc.Value = found.Value
             /\ pc.Description = found.Description /\ pc.Labels = found.Labels
              THEN { Outcome(FALSE, FALSE, NoErr, <<>>, cl) }
              ELSE UNION {
                     IF d.err # NoErr
                         THEN { Outcome(FALSE, FALSE, d.err,
                                        <<Call("Delete", found, d.err)>>, d.cl) }
                         ELSE { IF c.err # NoErr
                                    THEN Outcome(FALSE, FALSE, c.err,
                                                 <<Call("Delete", found, d.err),
                                                   Call("Create", pc, c.err)>>, c.cl)
                                    ELSE Outcome(TRUE, ~req.HCOTriggered, NoErr,
                                                 <<Call("Delete", found, d.err),
                                                   Call("Create", pc, c.err)>>, c.cl)
                                : c \in ClientCreate(d.cl, pc) }
                     : d \in ClientDelete(cl, found) }

(***************************************************************************)
(* The other two hooks' getFullCr and reset, and the dispatch of a hook    *)
(* call on the handler's kind.                                             *)
(***************************************************************************)
kvConfigHooks_getFullCr(parent) ==
    { [obj |-> Ptr(cm), err |-> NoErr] : cm \in NewKubeVirtConfigForCR(parent, parent.Namespace) }

kvPriorityClassHooks_getFullCr(parent) ==
    { [obj |-> Ptr(NewKubeVirtPriorityClass(parent)), err |-> NoErr] }

\* hooks.reset(): only the KubeVirt hook holds a cache.
hooks_reset(k, h_cache) ==
    IF k = "KubeVirt" THEN kubevirtHooks_reset(h_cache) ELSE h_cache

\* hooks.getFullCr(hc): the possible (cache after the call, object, error).
hooks_getFullCr(k, h_cache, parent) ==
    IF k = "KubeVirt" THEN kubevirtHooks_getFullCr(h_cache, parent)
    ELSE IF k = "ConfigMap"
        THEN { [cache |-> h_cache, obj |-> r.obj, err |-> r.err]
               : r \in kvConfigHooks_getFullCr(parent) }
    ELSE { [cache |-> h_cache, obj |-> r.obj, err |-> r.err]
           : r \in kvPriorityClassHooks_getFullCr(parent) }

\* hooks.updateCr(req, Client, exists, required).
hooks_updateCr(k, req, cl, exists, required) ==
    IF k = "KubeVirt" THEN kubevirtHooks_updateCr(req, cl, exists, required)
    ELSE IF k = "ConfigMap" THEN kvConfigHooks_updateCr(req, cl, exists, required)
    ELSE kvPriorityClassHooks_updateCr(req, cl, exists, required)

(***************************************************************************)
(* The hooks' operations on a found object other than updateCr.  Those of  *)
(* the KubeVirt hook, and getObjectMeta of the other two, convert the      *)
(* object with a one-value type assertion, which panics on another kind.   *)
(***************************************************************************)
ErrTypeAssertion == "panic: interface conversion"

\* What such an operation ends with: a value, or a panic.
Returned(value) == [panic |-> FALSE, value |-> value]
TypeAssertionPanic == [panic |-> TRUE, value |-> ErrTypeAssertion]

\* cr.Status of a KubeVirt; an object stored without one holds the zero value.
StatusOf(cr) ==
    IF cr.Status = Nil
        THEN [Conditions |-> <<>>, ObservedKubeVirtVersion |-> ""]
        ELSE cr.Status[1]

translateKubeVirtConds(orig) ==
    [ i \in 1..Len(orig) |->
        [ Type |-> orig[i].Type, Status |-> orig[i].Status,
          Reason |-> orig[i].Reason, Message |-> orig[i].Message ] ]

KubevirtVersionEnvV == "KUBEVIRT_VERSION"

\* os.Getenv of the component-version variables: the operator's deployment
\* sets the version it expects of KubeVirt.
Getenv(name) == IF name = KubevirtVersionEnvV THEN "v0.36.0" ELSE ""

\* checkComponentVersion(versionEnvName, actualVersion) of the package.
checkComponentVersion(versionEnvName, actualVersion) ==
    LET expectedVersion == Getenv(versionEnvName)
    IN  expectedVersion # "" /\ expectedVersion = actualVersion

\* &cr.ObjectMeta
ObjectMeta(cr) ==
    [Name |-> cr.Name, Labels |-> cr.Labels, ResourceVersion |-> cr.ResourceVersion]

kubevirtHooks_getConditions(cr) ==
    IF cr.Kind # "KubeVirt" THEN TypeAssertionPanic
    ELSE Returned(translateKubeVirtConds(StatusOf(cr).Conditions))

kubevirtHooks_checkComponentVersion(cr) ==
    IF cr.Kind # "KubeVirt" THEN TypeAssertionPanic
    ELSE Returned(checkComponentVersion(KubevirtVersionEnvV,
                                        StatusOf(cr).ObservedKubeVirtVersion))

kubevirtHooks_getObjectMeta(cr) ==
    IF cr.Kind # "KubeVirt" THEN TypeAssertionPanic ELSE Returned(ObjectMeta(cr))

kvConfigHooks_getConditions(cr) == Returned(Nil)

kvConfigHooks_checkComponentVersion(cr) == Returned(TRUE)

kvConfigHooks_getObjectMeta(cr) ==
    IF cr.Kind # "ConfigMap" THEN TypeAssertionPanic ELSE Returned(ObjectMeta(cr))

kvPriorityClassHooks_getConditions(cr) == Returned(Nil)

kvPriorityClassHooks_checkComponentVersion(cr) == Returned(TRUE)

kvPriorityClassHooks_getObjectMeta(cr) ==
    IF cr.Kind # "PriorityClass" THEN TypeAssertionPanic ELSE Returned(ObjectMeta(cr))

hooks_getConditions(k, cr) ==
    IF k = "KubeVirt" THEN kubevirtHooks_getConditions(cr)
    ELSE IF k = "ConfigMap" THEN kvConfigHooks_getConditions(cr)
    ELSE kvPriorityClassHooks_getConditions(cr)

hooks_checkComponentVersion(k, cr) ==
    IF k = "KubeVirt" THEN kubevirtHooks_checkComponentVersion(cr)
    ELSE IF k = "ConfigMap" THEN kvConfigHooks_checkComponentVersion(cr)
    ELSE kvPriorityClassHooks_checkComponentVersion(cr)

hooks_getObjectMeta(k, cr) ==
    IF k = "KubeVirt" THEN kubevirtHooks_getObjectMeta(cr)
    ELSE IF k = "ConfigMap" THEN kvConfigHooks_getObjectMeta(cr)
    ELSE kvPriorityClassHooks_getObjectMeta(cr)

(***************************************************************************)
(* Inputs: parent records and environments.                                *)
(***************************************************************************)
\* HyperConvergedFeatureGates' fields in the order the API type declares them.
FGFieldOrder ==
    << "HotplugVolumes", "WithHostPassthroughCPU", "WithHostModelCPU",
       "SRIOVLiveMigration", "HypervStrictCheck", "GPU", "HostDevices" >>

\* How many of the conditional gates the parent records of SpecBuild and
\* SpecHook may enable (SpecGates ranges over all of them).
MaxGates == 2

ModelGates == { FGFieldOrder[i] : i \in 1..MaxGates }

NoPlacement == [NodePlacement |-> Nil]

SomePlacement ==
    [NodePlacement |->
        Ptr([ Affinity |-> Ptr("zone-affinity"),
              NodeSelector |-> ("node-role" :> "infra"),
              Tolerations |-> <<"tolerate-infra">> ])]

Parent(fgs, infra, patch) ==
    [ Name |-> "kubevirt-hyperconverged",
      Namespace |-> "kubevirt-hyperconverged",
      FeatureGates |-> fgs,
      Infra |-> infra,
      Workloads |-> NoPlacement,
      Patch |-> patch ]

KvmEmulationValues ==
    { Unset, Set(<<>>), Set(<<SP>>), Set(<<"true">>), Set(<<"false">>),
      Set(<<SP, "true", SP>>), Set(<<"maybe">>) }

SmbiosValues ==
    { Unset, Set(<<>>), Set(<<SP, SP>>), Set(<<"Family: KubeVirt">>),
      Set(<<"Manufacturer: Acme", SP>>), Set(<<"{{">>) }

MachineTypeValues ==
    { Unset, Set(<<>>), Set(<<SP>>), Set(<<"q35">>), Set(<<SP, "pc-q35-rhel8">>) }

Environ(kvm, smbios, machineType) ==
    (kvmEmulationEnvName :> kvm) @@ (smbiosEnvName :> smbios) @@
    (machineTypeEnvName :> machineType)

NoRet == [op |-> "none"]
NoHist == [first |-> Nil, failed |-> FALSE]
NoReq == [HCOTriggered |-> FALSE, UpgradeMode |-> FALSE]

\* The pass variables of a specification that runs no pass.
NoPass ==
    /\ kind = "none"
    /\ request = NoReq
    /\ phase = "idle"
    /\ desired = Nil
    /\ fetched = Nil
    /\ live = Nil
    /\ nEdit = 0

(***************************************************************************)
(* SpecGates: the feature-gate resolver over every feature-gate            *)
(* configuration of the parent record.                                     *)
(***************************************************************************)
InitGates ==
    /\ hc \in { Parent(fgs, NoPlacement, "none") : fgs \in SUBSET FGFields }
    /\ env = Environ(Unset, Unset, Unset)
    /\ ret = NoRet
    /\ prev = NoRet
    /\ cache = Nil
    /\ hist = NoHist
    /\ NoPass

ResolveGates ==
    /\ ret = NoRet
    /\ \E fgs \in getKvFeatureGateList(hc.FeatureGates) :
          ret' = [op |-> "getKvFeatureGateList", fgs |-> fgs]
    /\ UNCHANGED <<hc, env, prev, cache, hist, passVars>>

NextGates == ResolveGates

SpecGates == InitGates /\ [][NextGates]_vars

(***************************************************************************)
(* SpecBuild: the three builders, applied repeatedly to one parent record  *)
(* in one environment.                                                     *)
(***************************************************************************)
InitBuild ==
    /\ hc \in { Parent(fgs, infra, patch) :
                  fgs \in SUBSET ModelGates,
                  infra \in {NoPlacement, SomePlacement},
                  patch \in {"none", "replace-machineType", "malformed"} }
    /\ env \in { Environ(k, s, m) :
                  k \in KvmEmulationValues, s \in SmbiosValues, m \in MachineTypeValues }
    /\ ret = NoRet
    /\ prev = NoRet
    /\ cache = Nil
    /\ hist = NoHist
    /\ NoPass

BuildKubeVirt ==
    /\ \E r \in NewKubeVirt(hc) :
          ret' = [op |-> "NewKubeVirt", obj |-> r.obj, err |-> r.err]
    /\ prev' = ret
    /\ UNCHANGED <<inputs, hookVars, passVars>>

BuildKubeVirtConfig ==
    /\ \E cm \in NewKubeVirtConfigForCR(hc, hc.Namespace) :
          ret' = [op |-> "NewKubeVirtConfigForCR", obj |-> Ptr(cm), err |-> NoErr]
    /\ prev' = ret
    /\ UNCHANGED <<inputs, hookVars, passVars>>

BuildPriorityClass ==
    /\ ret' = [op |-> "NewKubeVirtPriorityClass",
               obj |-> Ptr(NewKubeVirtPriorityClass(hc)), err |-> NoErr]
    /\ prev' = ret
    /\ UNCHANGED <<inputs, hookVars, passVars>>

NextBuild == BuildKubeVirt \/ BuildKubeVirtConfig \/ BuildPriorityClass

SpecBuild == InitBuild /\ [][NextBuild]_vars

(***************************************************************************)
(* SpecHook: one kubevirtHooks instance used over several passes while the *)
(* parent record and the environment change between its calls.             *)
(***************************************************************************)
HookParents == { Parent(fgs, NoPlacement, "none") : fgs \in SUBSET ModelGates }

HookEnvs ==
    { Environ(k, s, m) :
        k \in {Unset, Set(<<"true">>), Set(<<"maybe">>)},
        s \in {Unset, Set(<<"Family: KubeVirt">>), Set(<<"{{">>)},
        m \in {Unset, Set(<<"q35">>)} }

InitHook ==
    /\ hc \in HookParents
    /\ env \in HookEnvs
    /\ ret = NoRet
    /\ prev = NoRet
    /\ cache = Nil
    /\ hist = NoHist
    /\ NoPass

\* h.getFullCr(hc).  The return records, beside (obj, err), whether no call
\* had succeeded since the last reset (first), whether the cache was empty so
\* that NewKubeVirt was called (built), and whether the object returned is one
\* NewKubeVirt yields for the parent and environment of this call (fresh).
GetFullCr ==
    /\ \E r \in kubevirtHooks_getFullCr(cache, hc) :
          /\ cache' = r.cache
          /\ ret' = [ op |-> "getFullCr", obj |-> r.obj, err |-> r.err,
                      first |-> (hist.first = Nil),
                      built |-> (cache = Nil),
                      fresh |-> (r.obj \in { b.obj : b \in NewKubeVirt(hc) }) ]
          /\ hist' = [ first |-> IF hist.first = Nil THEN r.obj ELSE hist.first,
                       failed |-> (hist.failed \/ r.err # NoErr) ]
    /\ prev' = ret
    /\ UNCHANGED <<inputs, passVars>>

\* h.reset().
Reset ==
    /\ cache' = kubevirtHooks_reset(cache)
    /\ hist' = NoHist
    /\ ret' = [op |-> "reset"]
    /\ prev' = ret
    /\ UNCHANGED <<inputs, passVars>>

\* The parent record is edited between two calls of the hook.
ChangeParent ==
    /\ hc' \in HookParents \ {hc}
    /\ ret' = [op |-> "parent changed"]
    /\ prev' = ret
    /\ UNCHANGED <<env, hookVars, passVars>>

\* The operator's environment differs at the next call (a restarted
\* deployment with corrected variables).
ChangeEnv ==
    /\ env' \in HookEnvs \ {env}
    /\ ret' = [op |-> "environment changed"]
    /\ prev' = ret
    /\ UNCHANGED <<hc, hookVars, passVars>>

NextHook == GetFullCr \/ Reset \/ ChangeParent \/ ChangeEnv

SpecHook == InitHook /\ [][NextHook]_vars

(***************************************************************************)
(* Spec: one handler (of one kind) reconciling its operand over several    *)
(* passes, for one parent record and one environment, while other writers  *)
(* edit or delete the operand on the cluster.  A pass is the generic       *)
(* reconciler's: reset and getFullCr, lookup of the live object, then      *)
(* create when it is absent or updateCr when it is found.                  *)
(***************************************************************************)
\* How many writes by others than the handler one behaviour holds.
MaxEdits == 1

Kinds == {"KubeVirt", "ConfigMap", "PriorityClass"}

Requests == [HCOTriggered : BOOLEAN, UpgradeMode : BOOLEAN]

\* A parent with no conditional gate enabled and one with two of them enabled
\* (the fewest for which the order of the gate list can differ between builds).
ReconcileParents ==
    { Parent(fgs, NoPlacement, "none") : fgs \in {{}, {"HotplugVolumes", "GPU"}} }

ReconcileEnvs ==
    { Environ(Unset, Unset, Unset),
      Environ(Set(<<"true">>), Set(<<"Family: KubeVirt">>), Set(<<"q35">>)),
      Environ(Set(<<"maybe">>), Unset, Set(<<"q35">>)) }

OtherLabels == [app |-> "someone-else", component |-> "compute"]

\* Objects an earlier release, or a user, left on the cluster.
LegacyKubeVirt ==
    [ Kind |-> "KubeVirt",
      Name |-> <<"kubevirt-", "kubevirt-hyperconverged">>,
      Labels |-> OtherLabels,
      Namespace |-> "kubevirt-hyperconverged",
      Annotations |-> <<"kubevirt.io/latest-observed-api-version">>,
      ResourceVersion |-> 1,
      Spec |-> [ UninstallStrategy |-> "BlockUninstallIfWorkloadsExist",
                 Infra |-> Nil,
                 Workloads |-> Nil,
                 Configuration |->
                     [ DeveloperConfiguration |-> Nil,
                       SELinuxLauncherType |-> <<>>,
                       NetworkConfiguration |-> Nil,
                       SMBIOSConfig |-> Nil,
                       MachineType |-> <<>> ] ],
      Status |-> Ptr("Deployed") ]

LegacyConfigMap ==
    [ Kind |-> "ConfigMap",
      Name |-> <<"kubevirt-config">>,
      Labels |-> OtherLabels,
      Namespace |-> "kubevirt-hyperconverged",
      ResourceVersion |-> 1,
      DataIsNil |-> FALSE,
      Data |-> (FeatureGatesKey :> <<"DataVolumes", ",", "SRIOV">>) @@
               (SELinuxLauncherTypeKey :> <<"spc_t">>) @@
               (NetworkInterfaceKey :> <<"bridge">>) @@
               (MachineTypeKey :> <<"pc-q35-rhel7">>) @@
               (MigrationsConfigKey :> <<"parallelMigrationsPerCluster: 5">>) @@
               ("user-key" :> <<"user-value">>) ]

\* A ConfigMap stored without any data decodes with a nil Data map.
EmptyConfigMap ==
    [ LegacyConfigMap EXCEPT !.DataIsNil = TRUE, !.Data = <<>> ]

LegacyPriorityClass ==
    [ Kind |-> "PriorityClass",
      APIVersion |-> "scheduling.k8s.io/v1",
      Name |-> <<"kubevirt-cluster-critical">>,
      Labels |-> OtherLabels,
      ResourceVersion |-> 1,
      Value |-> 1000,
      GlobalDefault |-> FALSE,
      Description |-> "This priority class should be used for KubeVirt core components only." ]

LegacyObjects(k) ==
    IF k = "KubeVirt" THEN { LegacyKubeVirt }
    ELSE IF k = "ConfigMap" THEN { LegacyConfigMap, EmptyConfigMap }
    ELSE { LegacyPriorityClass }

\* What another writer can make of the live object in one write.
Edits(k, obj) ==
    IF k = "KubeVirt" THEN
        { [obj EXCEPT !.Spec.Configuration.MachineType = <<"edited">>],
          [obj EXCEPT !.Labels = OtherLabels],
          [obj EXCEPT !.Annotations = <<"edited">>],
          [obj EXCEPT !.Status = Ptr("Deploying")] }
    ELSE IF k = "ConfigMap" THEN
        { [obj EXCEPT !.Data = Store(obj.Data, key, <<"edited">>), !.DataIsNil = FALSE]
          : key \in { FeatureGatesKey, SELinuxLauncherTypeKey, MigrationsConfigKey,
                      "user-key" } }
        \cup { [obj EXCEPT !.Labels = OtherLabels] }
    ELSE
        { [obj EXCEPT !.Value = 1000],
          [obj EXCEPT !.Labels = OtherLabels],
          [obj EXCEPT !.GlobalDefault = TRUE] }

\* The cluster as the client sees it during the pass in progress.
Cluster == [obj |-> live, held |-> VersionsOf(fetched)]

\* What is remembered of the pass before the last: whether it reconciled the
\* operand without error, and then to which desired object; or whether its
\* updateCr deleted the operand and failed to create it again.
Earlier(r) ==
    IF r.op \in {"create", "updateCr"} /\ r.err = NoErr
        THEN [op |-> "reconciled", desired |-> r.desired]
    ELSE IF r.op = "updateCr" /\ Len(r.calls) = 2 /\ r.calls[1].err = NoErr
        THEN [op |-> "recreateFailed"]
    ELSE NoRet

\* What a pass ended with: the branch taken (op), its inputs, what the hook or
\* the client returned, the client calls issued and the live object before
\* and after them.
PassResult(op, fetchedObj, o) ==
    [ op |-> op, request |-> request, desired |-> desired, fetched |-> fetchedObj,
      changed |-> o.changed, forced |-> o.forced, err |-> o.err, panic |-> o.panic,
      calls |-> o.calls, before |-> live, after |-> o.cl.obj ]

Init ==
    /\ hc \in ReconcileParents
    /\ env \in ReconcileEnvs
    /\ kind \in Kinds
    /\ live \in {Nil} \cup { Ptr(obj) : obj \in LegacyObjects(kind) }
    /\ ret = NoRet
    /\ prev = NoRet
    /\ cache = Nil
    /\ hist = NoHist
    /\ request = NoReq
    /\ phase = "idle"
    /\ desired = Nil
    /\ fetched = Nil
    /\ nEdit = 0

\* A pass begins: hooks.reset(), then hooks.getFullCr(hc).  A build error ends
\* the pass.  ret holds the result of the last pass from its end until the
\* next pass begins; prev then keeps what Earlier says of it.
BeginPass ==
    /\ phase = "idle"
    /\ \E rq \in Requests : request' = rq
    /\ \E r \in hooks_getFullCr(kind, hooks_reset(kind, cache), hc) :
          /\ cache' = r.cache
          /\ IF r.err # NoErr
                THEN /\ phase' = "idle"
                     /\ desired' = Nil
                     /\ ret' = [ op |-> "getFullCr", request |-> request', desired |-> Nil,
                                 fetched |-> Nil, changed |-> FALSE, forced |-> FALSE,
                                 err |-> r.err, panic |-> FALSE, calls |-> <<>>,
                                 before |-> live, after |-> live ]
                ELSE /\ phase' = "built"
                     /\ desired' = r.obj
                     /\ ret' = NoRet
    /\ prev' = Earlier(ret)
    /\ fetched' = Nil
    /\ UNCHANGED <<inputs, hist, kind, live, nEdit>>

\* Client.Get into hooks.getEmptyCr(): not found leads to the create branch.
LookupLive ==
    /\ phase = "built"
    /\ fetched' = live
    /\ phase' = IF live = Nil THEN "absent" ELSE "found"
    /\ UNCHANGED <<inputs, ret, prev, hookVars, kind, request, desired, live, nEdit>>

\* The create branch: Client.Create of the desired object.
CreateCr ==
    /\ phase = "absent"
    /\ \E c \in ClientCreate(Cluster, desired[1]) :
          /\ live' = c.cl.obj
          /\ ret' = PassResult("create", Nil,
                               Outcome(c.err = NoErr, FALSE, c.err,
                                       <<Call("Create", desired[1], c.err)>>, c.cl))
    /\ phase' = "idle"
    /\ UNCHANGED <<inputs, prev, hookVars, kind, request, desired, fetched, nEdit>>

\* The diff branch: hooks.updateCr(req, Client, found, required).
UpdateCr ==
    /\ phase = "found"
    /\ \E o \in hooks_updateCr(kind, request, Cluster, fetched[1], desired[1]) :
          /\ live' = o.cl.obj
          /\ ret' = PassResult("updateCr", fetched, o)
    /\ phase' = "idle"
    /\ UNCHANGED <<inputs, prev, hookVars, kind, request, desired, fetched, nEdit>>

\* Another writer changes the live object.
ExternalEdit ==
    /\ live # Nil
    /\ nEdit < MaxEdits
    /\ nEdit' = nEdit + 1
    /\ \E obj \in Edits(kind, live[1]) \ {live[1]} :
          live' = Stored(Cluster, obj).obj
    /\ UNCHANGED <<inputs, ret, prev, hookVars, kind, request, phase, desired, fetched>>

\* Another writer deletes the live object.
ExternalDelete ==
    /\ live # Nil
    /\ nEdit < MaxEdits
    /\ nEdit' = nEdit + 1
    /\ live' = Nil
    /\ UNCHANGED <<inputs, ret, prev, hookVars, kind, request, phase, desired, fetched>>

Next == BeginPass \/ LookupLive \/ CreateCr \/ UpdateCr \/ ExternalEdit \/ ExternalDelete

Spec == Init /\ [][Next]_vars

(***************************************************************************)
(* SpecHeal: the passes of the priority-class handler when the controller  *)
(* keeps requeueing: a pass that can begin or go on eventually does, and a *)
(* Create that is retried again and again eventually succeeds.             *)
(***************************************************************************)
InitHeal == Init /\ kind = "PriorityClass"

\* The create branch with the server accepting the Create.
CreateSucceeds == CreateCr /\ ret'.err = NoErr

SpecHeal ==
    /\ InitHeal
    /\ [][Next]_vars
    /\ WF_vars(BeginPass)
    /\ WF_vars(LookupLive)
    /\ WF_vars(UpdateCr)
    /\ SF_vars(CreateSucceeds)

(***************************************************************************)
(* SpecKinds: one operation of one hook on a found object and a desired    *)
(* object of any of the three kinds.                                       *)
(***************************************************************************)
KubeVirtConditions ==
    << [ Type |-> "Available", Status |-> "True", Reason |-> "AllComponentsAreUp",
         Message |-> "All components are ready.", LastProbeTime |-> "t1" ],
       [ Type |-> "Degraded", Status |-> "False", Reason |-> "AllComponentsAreUp",
         Message |-> "", LastProbeTime |-> "t2" ] >>

\* Objects of the three kinds as a lookup can return them.
FoundObjects ==
    { [LegacyKubeVirt EXCEPT !.Status = Nil],
      [LegacyKubeVirt EXCEPT !.Status =
          Ptr([Conditions |-> KubeVirtConditions, ObservedKubeVirtVersion |-> "v0.36.0"])],
      [LegacyKubeVirt EXCEPT !.Status =
          Ptr([Conditions |-> <<>>, ObservedKubeVirtVersion |-> "v0.35.0"])],
      LegacyConfigMap, EmptyConfigMap, LegacyPriorityClass }

\* Desired objects of the three kinds for the parent record hc.
RequiredObjects(parent) ==
    { r.obj[1] : r \in { o \in NewKubeVirt(parent) : o.err = NoErr } }
    \cup NewKubeVirtConfigForCR(parent, parent.Namespace)
    \cup { NewKubeVirtPriorityClass(parent) }

InitKinds ==
    /\ hc \in ReconcileParents
    /\ env = Environ(Unset, Unset, Unset)
    /\ kind \in Kinds
    /\ request \in Requests
    /\ fetched \in { Ptr(obj) : obj \in FoundObjects }
    /\ desired \in { Ptr(obj) : obj \in RequiredObjects(hc) }
    /\ live = fetched
    /\ ret = NoRet
    /\ prev = NoRet
    /\ cache = Nil
    /\ hist = NoHist
    /\ phase = "found"
    /\ nEdit = 0

CallUpdateCr ==
    /\ ret = NoRet
    /\ \E o \in hooks_updateCr(kind, request, Cluster, fetched[1], desired[1]) :
          /\ live' = o.cl.obj
          /\ ret' = [ op |-> "updateCr", changed |-> o.changed, forced |-> o.forced,
                      err |-> o.err, panic |-> o.panic, calls |-> o.calls ]
    /\ UNCHANGED <<inputs, prev, hookVars, kind, request, phase, desired, fetched, nEdit>>

CallGetConditions ==
    /\ ret = NoRet
    /\ LET o == hooks_getConditions(kind, fetched[1])
       IN  ret' = [op |-> "getConditions", panic |-> o.panic, value |-> o.value]
    /\ UNCHANGED <<inputs, prev, hookVars, passVars>>

CallCheckComponentVersion ==
    /\ ret = NoRet
    /\ LET o == hooks_checkComponentVersion(kind, fetched[1])
       IN  ret' = [op |-> "checkComponentVersion", panic |-> o.panic, value |-> o.value]
    /\ UNCHANGED <<inputs, prev, hookVars, passVars>>

CallGetObjectMeta ==
    /\ ret = NoRet
    /\ LET o == hooks_getObjectMeta(kind, fetched[1])
       IN  ret' = [op |-> "getObjectMeta", panic |-> o.panic, value |-> o.value]
    /\ UNCHANGED <<inputs, prev, hookVars, passVars>>

NextKinds ==
    CallUpdateCr \/ CallGetConditions \/ CallCheckComponentVersion \/ CallGetObjectMeta

SpecKinds == InitKinds /\ [][NextKinds]_vars

(***************************************************************************)
(* Properties of the feature-gate resolver (SpecGates).                    *)
(***************************************************************************)
\* C6 - Feature-gate superset: for every combination of the seven conditional
\* feature-gate booleans, the resolved list contains the seven fixed gates,
\* every conditional gate whose accessor is true, and no conditional gate
\* whose accessor is false.
FeatureGateSuperset ==
    ret.op = "getKvFeatureGateList" =>
        LET got == Range(ret.fgs)
            fg == hc.FeatureGates
        IN  /\ { kvDataVolumesGate, kvSRIOVGate, kvLiveMigrationGate, kvCPUManagerGate,
                 kvCPUNodeDiscoveryGate, kvSidecarGate, kvSnapshotGate } \subseteq got
            /\ (HotplugVolumesGate \in got) <=> IsHotplugVolumesEnabled(fg)
            /\ (kvWithHostPassthroughCPU \in got) <=> IsWithHostPassthroughCPUEnabled(fg)
            /\ (kvWithHostModelCPU \in got) <=> IsWithHostModelCPUEnabled(fg)
            /\ (SRIOVLiveMigrationGate \in got) <=> IsSRIOVLiveMigrationEnabled(fg)
            /\ (kvHypervStrictCheck \in got) <=> IsHypervStrictCheckEnabled(fg)
            /\ (GPUGate \in got) <=> IsGPUAssignmentEnabled(fg)
            /\ (HostDevicesGate \in got) <=> IsHostDevicesAssignmentEnabled(fg)

\* Witness of C6: a list resolved for a parent with some conditional gates on
\* and the others off.
FeatureGateSupersetWitness ==
    /\ ret.op = "getKvFeatureGateList"
    /\ hc.FeatureGates = {"GPU", "HostDevices", "HotplugVolumes"}
    /\ Len(ret.fgs) = 10
    /\ ret.fgs[10] = HotplugVolumesGate

(***************************************************************************)
(* Properties of the builders (SpecBuild).                                 *)
(***************************************************************************)
\* C7 - Determinism: two builds of the same kind from the same parent record
\* and the same environment are structurally equal, the order of the gate
\* list and the joined feature-gates string included.
BuildDeterministic ==
    (ret.op # "none" /\ prev.op = ret.op) => prev = ret

\* The emulation override as getKVDevConfig evaluates it.
EmulationOverride ==
    LET e == env[kvmEmulationEnvName]
    IN  e.ok /\ TrimSpace(e.val) # <<>> /\ ParseBool(TrimSpace(e.val)).val

\* C8 - Developer configuration presence: the KubeVirt desired object carries
\* a developer configuration block if and only if at least one conditional
\* feature gate is enabled or the emulation override evaluates to true.
DevConfigIffGateOrEmulation ==
    (ret.op = "NewKubeVirt" /\ ret.err = NoErr) =>
        ( (ret.obj[1].Spec.Configuration.DeveloperConfiguration # Nil)
            <=> (hc.FeatureGates # {} \/ EmulationOverride) )

(***************************************************************************)
(* Properties of the KubeVirt hook's cache (SpecHook).                     *)
(***************************************************************************)
\* The emulation override is set, not blank, and no boolean.
MalformedEmulation ==
    LET e == env[kvmEmulationEnvName]
    IN  e.ok /\ TrimSpace(e.val) # <<>> /\ ParseBool(TrimSpace(e.val)).err # NoErr

\* The SMBIOS override is set, not blank, and does not decode.
MalformedSmbios ==
    LET e == env[smbiosEnvName]
    IN  e.ok /\ TrimSpace(e.val) # <<>> /\ DecodeSMBIOS(TrimSpace(e.val)).err # NoErr

\* C9 - Build failure discards the object: with a malformed emulation boolean
\* or a malformed SMBIOS payload (whatever the machine type), NewKubeVirt
\* returns an error and no object, getFullCr returns an error and no object
\* and leaves the cache empty; and a getFullCr that finds the cache empty and
\* succeeds returns a complete object built from its own inputs.
BuildFailureDiscardsObject ==
    /\ (ret.op = "getFullCr" /\ ret.built /\ (MalformedEmulation \/ MalformedSmbios)) =>
          /\ \A r \in NewKubeVirt(hc) : r.err # NoErr /\ r.obj = Nil
          /\ ret.err # NoErr
          /\ ret.obj = Nil
          /\ cache = Nil
    /\ (ret.op = "getFullCr" /\ ret.built /\ ret.err = NoErr) =>
          /\ ret.obj # Nil
          /\ ret.fresh
          /\ cache = ret.obj

\* Witness of C9: a getFullCr failed on a malformed override, the environment
\* was corrected, and the next getFullCr of the same pass built an object.
BuildFailureDiscardsObjectWitness ==
    /\ ret.op = "getFullCr"
    /\ ret.built
    /\ ret.err = NoErr
    /\ hist.failed
    /\ env[machineTypeEnvName].ok

\* C10 - Cache contract of the KubeVirt hook: between two resets every
\* successful getFullCr returns the object the first successful one returned,
\* even if the parent record has changed; and the first successful getFullCr
\* after a reset returns an object built from the inputs of that call.
CacheContract ==
    /\ (ret.op = "getFullCr" /\ ret.err = NoErr) => ret.obj = hist.first
    /\ (ret.op = "getFullCr" /\ ret.err = NoErr /\ ret.first) => ret.fresh

\* Witness of C10: a getFullCr returns the cached object although the parent
\* record (or the environment) has changed since it was built.
CacheContractWitness ==
    /\ ret.op = "getFullCr"
    /\ ret.err = NoErr
    /\ ~ret.first
    /\ ~ret.fresh
    /\ ret.obj = hist.first

(***************************************************************************)
(* Properties of the reconciliation passes (Spec).                         *)
(***************************************************************************)
\* found holds, in every field the hook of kind k compares or forces, what
\* required holds.
Converged(k, found, required) ==
    IF k = "KubeVirt"
        THEN found.Spec = required.Spec /\ found.Labels = required.Labels
    ELSE IF k = "ConfigMap"
        THEN /\ \A key \in {FeatureGatesKey} \cup Range(ForcedKeys) :
                    Lookup(found.Data, key) = Lookup(required.Data, key)
             /\ MigrationsConfigKey \notin DOMAIN found.Data
             /\ found.Labels = required.Labels
    ELSE /\ found.Name = required.Name
         /\ found.Value = required.Value
         /\ found.Description = required.Description
         /\ found.Labels = required.Labels

\* The pass just ended took the diff branch on an object that the pass before
\* had left converged to the object it had built, for the same parent record
\* and environment.
SecondPassOnConverged ==
    /\ ret.op = "updateCr"
    /\ prev.op = "reconciled"
    /\ Converged(kind, ret.fetched[1], prev.desired[1])

\* C1 - Idempotence: a pass over an object that the pass before converged to
\* the desired one, with the same parent record and environment (the desired
\* object rebuilt after reset), reports unchanged and issues no update, delete
\* or create call.
Idempotent ==
    SecondPassOnConverged =>
        /\ ~ret.changed
        /\ ret.err = NoErr
        /\ ret.calls = <<>>

\* C1 holds of the passes whose parent record enables fewer than two of the
\* conditional gates: there the rebuilt object is the one built before.
IdempotentUpToGateOrder ==
    (SecondPassOnConverged /\ Cardinality(hc.FeatureGates) < 2) =>
        /\ ~ret.changed
        /\ ret.err = NoErr
        /\ ret.calls = <<>>

\* The verbs of the client calls a pass issued, in order.
Verbs(calls) == [i \in 1..Len(calls) |-> calls[i].verb]

\* The priority-class updateCr ran and found the named fields different.
PriorityClassDiffers ==
    /\ ret.op = "updateCr"
    /\ kind = "PriorityClass"
    /\ ~Converged(kind, ret.fetched[1], ret.desired[1])

\* C2 as stated - the priority-class updateCr, on a difference in name,
\* value, description or labels, issues a Delete of the live object and then
\* a Create of the desired one, and never an Update; on no difference it
\* issues no client call.
DeleteThenCreate ==
    (ret.op = "updateCr" /\ kind = "PriorityClass") =>
        IF Converged(kind, ret.fetched[1], ret.desired[1])
            THEN ret.calls = <<>>
            ELSE /\ Verbs(ret.calls) = <<"Delete", "Create">>
                 /\ ret.calls[1].obj = ret.fetched[1]
                 /\ ret.calls[2].obj = ret.desired[1]

\* C2 - the priority-class updateCr, on a difference in name, value,
\* description or labels, issues a Delete of the live object first and, when
\* and only when that Delete succeeds, then a Create of the desired object;
\* it never issues an Update; on no difference it issues no client call.
DeleteThenCreateIfDeleted ==
    (ret.op = "updateCr" /\ kind = "PriorityClass") =>
        IF Converged(kind, ret.fetched[1], ret.desired[1])
            THEN ret.calls = <<>>
            ELSE /\ Len(ret.calls) >= 1
                 /\ ret.calls[1].verb = "Delete"
                 /\ ret.calls[1].obj = ret.fetched[1]
                 /\ IF ret.calls[1].err = NoErr
                       THEN /\ Verbs(ret.calls) = <<"Delete", "Create">>
                            /\ ret.calls[2].obj = ret.desired[1]
                       ELSE /\ Verbs(ret.calls) = <<"Delete">>
                            /\ ret.err = ret.calls[1].err
                            /\ ~ret.changed

\* Witness of C2: a live priority class differing from the desired one only in
\* its value was deleted and the desired one created in its place.
DeleteThenCreateWitness ==
    /\ PriorityClassDiffers
    /\ ret.fetched[1].Value # ret.desired[1].Value
    /\ ret.fetched[1].Labels = ret.desired[1].Labels
    /\ Verbs(ret.calls) = <<"Delete", "Create">>
    /\ ret.changed
    /\ ret.after # Nil
    /\ ret.after[1].Value = ret.desired[1].Value

\* C3 - Attribution flag: for every kind, whenever updateCr reports
\* changed = true, its second return value is the negation of the request's
\* HCOTriggered flag.
AttributionFlag ==
    (ret.op = "updateCr" /\ ret.changed) =>
        ret.forced = ~ret.request.HCOTriggered

\* C3 holds of the KubeVirt and the priority-class hooks.
AttributionFlagButConfigMap ==
    (ret.op = "updateCr" /\ ret.changed /\ kind # "ConfigMap") =>
        ret.forced = ~ret.request.HCOTriggered

\* Both maps hold key with the same value, or neither holds it.
SameEntry(a, b, key) ==
    /\ (key \in DOMAIN a) <=> (key \in DOMAIN b)
    /\ Lookup(a, key) = Lookup(b, key)

\* The keys only an upgrade touches: the four forced ones and the removed one.
UpgradeOnlyKeys == Range(ForcedKeys) \cup {MigrationsConfigKey}

\* C4 - Upgrade-only forcing, steady state: outside upgrade mode the
\* config-resource updateCr leaves the live entries of smbios, machine-type,
\* selinuxLauncherType, debug.useEmulation and migrations as they are, in the
\* object it submits and on the cluster; and when the live feature-gates value
\* and labels equal the desired ones it reports unchanged and issues no call.
SteadyStateKeepsUpgradeOnlyKeys ==
    (ret.op = "updateCr" /\ kind = "ConfigMap" /\ ~ret.request.UpgradeMode) =>
        /\ \A i \in 1..Len(ret.calls) : \A key \in UpgradeOnlyKeys :
               SameEntry(ret.fetched[1].Data, ret.calls[i].obj.Data, key)
        /\ (ret.before = Nil) <=> (ret.after = Nil)
        /\ ret.before # Nil =>
               \A key \in UpgradeOnlyKeys :
                   SameEntry(ret.before[1].Data, ret.after[1].Data, key)
        /\ ( /\ Lookup(ret.fetched[1].Data, FeatureGatesKey)
                   = Lookup(ret.desired[1].Data, FeatureGatesKey)
             /\ ret.fetched[1].Labels = ret.desired[1].Labels )
           => (~ret.changed /\ ret.err = NoErr /\ ret.calls = <<>>)

\* Witness of C4: outside upgrade mode an Update of the feature gates went
\* through and left a non-default selinuxLauncherType and the migrations key
\* on the cluster.
SteadyStateKeepsUpgradeOnlyKeysWitness ==
    /\ ret.op = "updateCr"
    /\ kind = "ConfigMap"
    /\ ~ret.request.UpgradeMode
    /\ ret.changed
    /\ Verbs(ret.calls) = <<"Update">>
    /\ Lookup(ret.after[1].Data, SELinuxLauncherTypeKey) = <<"spc_t">>
    /\ Lookup(ret.desired[1].Data, SELinuxLauncherTypeKey) = SELinuxLauncherType
    /\ MigrationsConfigKey \in DOMAIN ret.after[1].Data
    /\ Lookup(ret.after[1].Data, FeatureGatesKey)
          = Lookup(ret.desired[1].Data, FeatureGatesKey)

\* The live config resource differs from the desired one in a forced key (as
\* the code reads them: a missing key reads as the empty string) or holds the
\* migrations key.
NeedsForcing(found, required) ==
    \/ \E key \in Range(ForcedKeys) :
           Lookup(found.Data, key) # Lookup(required.Data, key)
    \/ MigrationsConfigKey \in DOMAIN found.Data

\* The one call issued is an Update whose object reads the desired value under
\* each forced key and holds no migrations key.
SubmitsForcedUpdate ==
    /\ Verbs(ret.calls) = <<"Update">>
    /\ \A key \in Range(ForcedKeys) :
          Lookup(ret.calls[1].obj.Data, key) = Lookup(ret.desired[1].Data, key)
    /\ MigrationsConfigKey \notin DOMAIN ret.calls[1].obj.Data

\* C5 - Upgrade-only forcing, upgrade mode: in upgrade mode, when the live
\* config resource differs from the desired one in smbios, machine-type,
\* selinuxLauncherType or debug.useEmulation, or holds the migrations key,
\* updateCr submits an Update in which each of the four keys holds the desired
\* value and the migrations key is absent, and reports changed = true.
UpgradeForcesDefaults ==
    ( /\ ret.op = "updateCr"
      /\ kind = "ConfigMap"
      /\ ret.request.UpgradeMode
      /\ NeedsForcing(ret.fetched[1], ret.desired[1]) )
    => (SubmitsForcedUpdate /\ ret.changed)

\* What of C5 holds: when the live object's Data map is not nil the forced
\* Update is submitted, and changed is reported exactly when the server
\* accepted it; when the Data map is nil the call panics and submits nothing.
UpgradeForcesDefaultsUnlessNilData ==
    ( /\ ret.op = "updateCr"
      /\ kind = "ConfigMap"
      /\ ret.request.UpgradeMode
      /\ NeedsForcing(ret.fetched[1], ret.desired[1]) )
    => IF ret.fetched[1].DataIsNil
           THEN ret.panic /\ ret.calls = <<>> /\ ~ret.changed
           ELSE /\ SubmitsForcedUpdate
                /\ ret.changed <=> (ret.calls[1].err = NoErr)
                /\ ret.err = ret.calls[1].err

\* The priority-class updateCr just ended with its Delete accepted and its
\* Create refused.
RecreateFailed ==
    /\ ret.op = "updateCr"
    /\ kind = "PriorityClass"
    /\ Verbs(ret.calls) = <<"Delete", "Create">>
    /\ ret.calls[1].err = NoErr
    /\ ret.calls[2].err # NoErr

\* The cluster holds a priority class equal to the desired one.
Healed ==
    /\ live # Nil
    /\ Converged("PriorityClass", live[1], NewKubeVirtPriorityClass(hc))

\* C11 - Priority-class partial failure self-heals: when in updateCr the
\* Delete succeeds and the Create fails, updateCr returns the Create's error
\* with changed = false and the resource is absent from the cluster; the next
\* pass does not find it and takes the create branch, not updateCr; a Create
\* eventually succeeding, the passes eventually leave a priority class equal
\* to the desired one; and a pass over such a priority class reports
\* unchanged and issues no call.
PartialFailureHeals ==
    /\ [](RecreateFailed =>
            /\ ret.err = ret.calls[2].err
            /\ ~ret.changed
            /\ ret.after = Nil
            /\ live = Nil)
    /\ [](prev.op = "recreateFailed" =>
            /\ phase # "found"
            /\ ret.op \in {"none", "create"})
    /\ (RecreateFailed ~> Healed)
    /\ []((ret.op = "updateCr" /\ Converged(kind, ret.fetched[1], ret.desired[1])) =>
            (~ret.changed /\ ret.err = NoErr /\ ret.calls = <<>>))

\* Witness of C11: the pass after a failed re-creation took the create branch
\* and left the desired priority class on the cluster.
PartialFailureHealsWitness ==
    /\ prev.op = "recreateFailed"
    /\ ret.op = "create"
    /\ ret.err = NoErr
    /\ Healed

\* Another writer modified the live object after the pass fetched it and
\* before updateCr ran, and updateCr issued a write.
RacedWrite ==
    /\ ret.op = "updateCr"
    /\ ret.before # Nil
    /\ ret.before # ret.fetched
    /\ ret.calls # <<>>

\* C12 - Race detection: for every kind, when another writer modifies the
\* live object between the pass's fetch and the hook's write, the write is
\* rejected with a resource-version conflict, updateCr returns that error
\* with changed = false, and the cluster keeps the other writer's object.
RaceDetected ==
    RacedWrite =>
        /\ Len(ret.calls) = 1
        /\ ret.calls[1].err = ErrConflict
        /\ ret.err = ErrConflict
        /\ ~ret.changed
        /\ ret.after = ret.before

\* C12 holds of the two kinds whose hook writes with Update.
RaceDetectedByUpdate ==
    (RacedWrite /\ kind # "PriorityClass") =>
        /\ Verbs(ret.calls) = <<"Update">>
        /\ ret.calls[1].err = ErrConflict
        /\ ret.err = ErrConflict
        /\ ~ret.changed
        /\ ret.after = ret.before

\* C13 - No internal retry and faithful error propagation: one updateCr call
\* of any kind issues each client operation (Update, Delete, Create) at most
\* once; a failed operation is the last one issued, and updateCr then returns
\* changed = false, false and that operation's error.
NoRetryAndSameError ==
    ret.op = "updateCr" =>
        /\ \A i, j \in 1..Len(ret.calls) :
               ret.calls[i].verb = ret.calls[j].verb => i = j
        /\ \A i \in 1..Len(ret.calls) :
               ret.calls[i].err # NoErr =>
                   /\ i = Len(ret.calls)
                   /\ ret.err = ret.calls[i].err
                   /\ ~ret.changed
                   /\ ~ret.forced

\* Witness of C13: an Update was refused by the server and updateCr returned
\* after that one call with the server's error.
NoRetryAndSameErrorWitness ==
    /\ ret.op = "updateCr"
    /\ Verbs(ret.calls) = <<"Update">>
    /\ ret.calls[1].err = ErrTransient
    /\ ret.err = ErrTransient
    /\ ~ret.changed

\* A trigger of the config-resource update fires: in upgrade mode a forced
\* key differs or the migrations key is held; in any mode the feature-gates
\* value or the labels differ.
UpdateTriggered(req, found, required) ==
    \/ req.UpgradeMode /\ NeedsForcing(found, required)
    \/ Lookup(found.Data, FeatureGatesKey) # Lookup(required.Data, FeatureGatesKey)
    \/ found.Labels # required.Labels

\* C14 - Single update for the config resource: one call of the
\* config-resource updateCr issues exactly one Update (and no other call) when
\* at least one trigger fires, however many fire together, and no call when
\* none fires.
SingleUpdate ==
    (ret.op = "updateCr" /\ kind = "ConfigMap") =>
        IF UpdateTriggered(ret.request, ret.fetched[1], ret.desired[1])
            THEN Verbs(ret.calls) = <<"Update">>
            ELSE ret.calls = <<>>

\* C14 holds of the live objects whose Data map is not nil; on a nil Data map
\* a trigger always fires and the call panics without an Update.
SingleUpdateUnlessNilData ==
    (ret.op = "updateCr" /\ kind = "ConfigMap") =>
        IF ret.fetched[1].DataIsNil
            THEN /\ UpdateTriggered(ret.request, ret.fetched[1], ret.desired[1])
                 /\ ret.panic
                 /\ ret.calls = <<>>
        ELSE IF UpdateTriggered(ret.request, ret.fetched[1], ret.desired[1])
            THEN Verbs(ret.calls) = <<"Update">>
            ELSE ret.calls = <<>>

\* The live KubeVirt's spec or labels differ from the desired one's.
KubeVirtDiffers(found, virt) ==
    found.Spec # virt.Spec \/ found.Labels # virt.Labels

\* C15 - KubeVirt update semantics: updateCr reports changed = true exactly
\* when the live object's spec or labels differ from the desired ones and the
\* Update succeeds; the object it submits has the desired spec and labels and
\* the fetched object's name, namespace, annotations, resource version and
\* status; without a difference it submits nothing; and the cached desired
\* object is after the call what it was before.
KubeVirtUpdateSemantics ==
    (ret.op = "updateCr" /\ kind = "KubeVirt") =>
        LET found == ret.fetched[1]
            virt == ret.desired[1]
        IN  /\ ret.changed <=>
                   /\ KubeVirtDiffers(found, virt)
                   /\ Verbs(ret.calls) = <<"Update">>
                   /\ ret.calls[1].err = NoErr
            /\ IF KubeVirtDiffers(found, virt)
                   THEN /\ Verbs(ret.calls) = <<"Update">>
                        /\ ret.calls[1].obj =
                              [found EXCEPT !.Spec = virt.Spec, !.Labels = virt.Labels]
                        /\ ret.calls[1].obj.Name = found.Name
                        /\ ret.calls[1].obj.Namespace = found.Namespace
                        /\ ret.calls[1].obj.Annotations = found.Annotations
                        /\ ret.calls[1].obj.ResourceVersion = found.ResourceVersion
                        /\ ret.calls[1].obj.Status = found.Status
                   ELSE ret.calls = <<>>
            /\ cache = ret.desired
            /\ desired = ret.desired

\* Witness of C15: an Update of a KubeVirt left by an earlier release went
\* through; the cluster holds the desired spec and labels with the
\* annotations and status the object had.
KubeVirtUpdateSemanticsWitness ==
    /\ ret.op = "updateCr"
    /\ kind = "KubeVirt"
    /\ ret.changed
    /\ ret.fetched[1].Spec # ret.desired[1].Spec
    /\ ret.fetched[1].Annotations # ret.desired[1].Annotations
    /\ ret.after[1].Spec = ret.desired[1].Spec
    /\ ret.after[1].Labels = ret.desired[1].Labels
    /\ ret.after[1].Annotations = ret.fetched[1].Annotations
    /\ ret.after[1].Status = Ptr("Deployed")

\* The operation just run got an object of another kind than its hook's.
WrongKind ==
    /\ ret.op \in {"updateCr", "getConditions", "checkComponentVersion", "getObjectMeta"}
    /\ \/ fetched[1].Kind # kind
       \/ ret.op = "updateCr" /\ desired[1].Kind # kind

\* C16 - Wrong-kind objects never panic: updateCr, getConditions,
\* checkComponentVersion and getObjectMeta of every hook, given an object of
\* another kind than the hook's, end without a panic; updateCr then returns an
\* error with changed = false and issues no client call.
WrongKindNeverPanics ==
    WrongKind =>
        /\ ~ret.panic
        /\ ret.op = "updateCr" =>
               (ret.err # NoErr /\ ~ret.changed /\ ~ret.forced /\ ret.calls = <<>>)

\* C16 holds of updateCr of every hook, and of getConditions and
\* checkComponentVersion of the two hooks that ignore their argument; the
\* other operations panic on every object of another kind.
WrongKindPanicsWhereAsserted ==
    WrongKind =>
        IF ret.op = "updateCr"
            THEN /\ ~ret.panic
                 /\ ret.err # NoErr /\ ~ret.changed /\ ~ret.forced /\ ret.calls = <<>>
                 /\ live = fetched
        ELSE ret.panic <=> (ret.op = "getObjectMeta" \/ kind = "KubeVirt")

\* obj holds the desired feature-gates string and the desired labels.
GatesAndLabelsOf(obj, required) ==
    /\ FeatureGatesKey \in DOMAIN obj.Data
    /\ obj.Data[FeatureGatesKey] = required.Data[FeatureGatesKey]
    /\ obj.Labels = required.Labels

EnabledConditionalGates(fg) ==
    { gate \in { HotplugVolumesGate, kvWithHostPassthroughCPU, kvWithHostModelCPU,
                 SRIOVLiveMigrationGate, kvHypervStrictCheck, GPUGate, HostDevicesGate } :
        \/ gate = HotplugVolumesGate /\ IsHotplugVolumesEnabled(fg)
        \/ gate = kvWithHostPassthroughCPU /\ IsWithHostPassthroughCPUEnabled(fg)
        \/ gate = kvWithHostModelCPU /\ IsWithHostModelCPUEnabled(fg)
        \/ gate = SRIOVLiveMigrationGate /\ IsSRIOVLiveMigrationEnabled(fg)
        \/ gate = kvHypervStrictCheck /\ IsHypervStrictCheckEnabled(fg)
        \/ gate = GPUGate /\ IsGPUAssignmentEnabled(fg)
        \/ gate = HostDevicesGate /\ IsHostDevicesAssignmentEnabled(fg) }

\* C18 - Gate ordering and uniqueness: for every feature-gate configuration
\* the resolved sequence starts with DataVolumes, SRIOV, LiveMigration,
\* CPUManager, CPUNodeDiscovery, Sidecar, Snapshot in this order, holds after
\* them only enabled conditional gates, and holds no gate name twice.
FixedGatesFirstNoDuplicates ==
    ret.op = "getKvFeatureGateList" =>
        /\ Len(ret.fgs) >= 7
        /\ SubSeq(ret.fgs, 1, 7) =
              << "DataVolumes", "SRIOV", "LiveMigration", "CPUManager",
                 "CPUNodeDiscovery", "Sidecar", "Snapshot" >>
        /\ \A i \in 8..Len(ret.fgs) :
               ret.fgs[i] \in EnabledConditionalGates(hc.FeatureGates)
        /\ \A i, j \in 1..Len(ret.fgs) : ret.fgs[i] = ret.fgs[j] => i = j

\* Witness of C18: a list resolved with two conditional gates after the seven
\* fixed ones, in the order opposite to that of their declaration.
FixedGatesFirstNoDuplicatesWitness ==
    /\ ret.op = "getKvFeatureGateList"
    /\ Len(ret.fgs) = 9
    /\ ret.fgs[8] = kvWithHostModelCPU
    /\ ret.fgs[9] = kvWithHostPassthroughCPU

\* The variable is absent, empty or holds white space only.
Blank(name) == ~env[name].ok \/ TrimSpace(env[name].val) = <<>>

\* The KubeVirt builder treats the three variables as C19 says: a blank one
\* puts no override in the object (but for a machine type a patch of the
\* parent record sets), a malformed emulation boolean or SMBIOS payload makes
\* the build fail.
KubeVirtOverrides ==
    ret.op = "NewKubeVirt" =>
        /\ (MalformedEmulation \/ MalformedSmbios) => (ret.err # NoErr /\ ret.obj = Nil)
        /\ ret.err = NoErr =>
              LET config == ret.obj[1].Spec.Configuration
              IN  /\ Blank(kvmEmulationEnvName) =>
                        \/ config.DeveloperConfiguration = Nil
                        \/ ~config.DeveloperConfiguration[1].UseEmulation
                  /\ Blank(smbiosEnvName) => config.SMBIOSConfig = Nil
                  /\ (Blank(machineTypeEnvName) /\ hc.Patch = "none") =>
                        config.MachineType = <<>>

\* The config-resource builder treats them as C19 says: a blank one puts no
\* key in the data, a malformed emulation boolean or SMBIOS payload makes the
\* build fail.
ConfigOverrides ==
    ret.op = "NewKubeVirtConfigForCR" =>
        /\ (MalformedEmulation \/ MalformedSmbios) => ret.err # NoErr
        /\ ret.err = NoErr =>
              LET data == ret.obj[1].Data
              IN  /\ Blank(kvmEmulationEnvName) => UseEmulationKey \notin DOMAIN data
                  /\ Blank(smbiosEnvName) => SmbiosConfigKey \notin DOMAIN data
                  /\ Blank(machineTypeEnvName) => MachineTypeKey \notin DOMAIN data

\* C19 - Environment overrides are treated alike by both builders: for each
\* of the emulation, SMBIOS and machine-type variables, an absent or blank
\* value puts no override in the KubeVirt desired object and no key
\* (debug.useEmulation, smbios, machine-type) in the config-resource desired
\* object; a malformed emulation boolean or SMBIOS payload makes the build
\* fail rather than being stored.
OverridesAlike == KubeVirtOverrides /\ ConfigOverrides

\* What the config-resource builder does: it never fails, and it stores each
\* variable that is set and not empty as it reads it, white space and
\* malformed values included.
ConfigStoresRawValues ==
    ret.op = "NewKubeVirtConfigForCR" =>
        /\ ret.err = NoErr
        /\ \A pair \in { <<kvmEmulationEnvName, UseEmulationKey>>,
                          <<smbiosEnvName, SmbiosConfigKey>>,
                          <<machineTypeEnvName, MachineTypeKey>> } :
               LET e == env[pair[1]]
                   data == ret.obj[1].Data
               IN  IF e.ok /\ e.val # <<>>
                       THEN pair[2] \in DOMAIN data /\ data[pair[2]] = e.val
                       ELSE pair[2] \notin DOMAIN data

\* The keys the desired object holds only under an environment override.
OverrideKeys == {MachineTypeKey, SmbiosConfigKey, UseEmulationKey}

\* In upgrade mode updateCr submitted an object, the live one holding key and
\* the desired one not.
ForcedWithoutDesired(key) ==
    /\ ret.op = "updateCr"
    /\ kind = "ConfigMap"
    /\ ret.request.UpgradeMode
    /\ ret.calls # <<>>
    /\ key \in DOMAIN ret.fetched[1].Data
    /\ key \notin DOMAIN ret.desired[1].Data

\* C20 - Forcing a key the desired object lacks: in upgrade mode, when the
\* live config resource holds one of machine-type, smbios, debug.useEmulation
\* and the desired object has no such key, the object updateCr submits does
\* not hold the key either.
ForcedKeyRemoved ==
    \A key \in OverrideKeys :
        ForcedWithoutDesired(key) => key \notin DOMAIN ret.calls[1].obj.Data

\* What the code does instead: the submitted object keeps the key, with the
\* empty string as its value.
ForcedKeyKeptEmpty ==
    \A key \in OverrideKeys :
        ForcedWithoutDesired(key) =>
            /\ key \in DOMAIN ret.calls[1].obj.Data
            /\ ret.calls[1].obj.Data[key] = <<>>

\* The data keys the config-resource hook manages.
ManagedKeys == {FeatureGatesKey} \cup UpgradeOnlyKeys

\* The keys of the three maps that the hook does not manage.
UnmanagedKeys(a, b, c) == (DOMAIN a \cup DOMAIN b \cup DOMAIN c) \ ManagedKeys

\* C21 - Frame of the config-resource update: in every mode, in every pass,
\* updateCr adds, changes and removes no data key other than feature-gates,
\* selinuxLauncherType, machine-type, smbios, debug.useEmulation and
\* migrations, neither in the object it submits nor on the cluster; a
\* default-network-interface value and a user-added key stay as they are,
\* also when the desired object holds another value or none.
ConfigUpdateFrame ==
    (ret.op = "updateCr" /\ kind = "ConfigMap") =>
        LET found == ret.fetched[1].Data
            required == ret.desired[1].Data
        IN  /\ \A i \in 1..Len(ret.calls) :
                   \A key \in UnmanagedKeys(found, ret.calls[i].obj.Data, required) :
                       SameEntry(found, ret.calls[i].obj.Data, key)
            /\ (ret.before = Nil) <=> (ret.after = Nil)
            /\ ret.before # Nil =>
                   \A key \in UnmanagedKeys(ret.before[1].Data, ret.after[1].Data, required) :
                       SameEntry(ret.before[1].Data, ret.after[1].Data, key)

\* Witness of C21: an Update in upgrade mode went through and left on the
\* cluster a default network interface other than the desired one and a key
\* a user added.
ConfigUpdateFrameWitness ==
    /\ ret.op = "updateCr"
    /\ kind = "ConfigMap"
    /\ ret.request.UpgradeMode
    /\ ret.changed
    /\ Lookup(ret.after[1].Data, NetworkInterfaceKey) = <<"bridge">>
    /\ Lookup(ret.desired[1].Data, NetworkInterfaceKey) = kubevirtDefaultNetworkInterfaceValue
    /\ "user-key" \in DOMAIN ret.after[1].Data
    /\ "user-key" \notin DOMAIN ret.desired[1].Data
    /\ MigrationsConfigKey \notin DOMAIN ret.after[1].Data

\* Witness of the "never adds" case of C21: an Update went through on a live
\* object that held no default network interface, and the cluster holds none
\* after it although the desired object does.
ConfigUpdateAddsNoKeyWitness ==
    /\ ret.op = "updateCr"
    /\ kind = "ConfigMap"
    /\ ret.changed
    /\ NetworkInterfaceKey \notin DOMAIN ret.fetched[1].Data
    /\ NetworkInterfaceKey \notin DOMAIN ret.after[1].Data
    /\ NetworkInterfaceKey \in DOMAIN ret.desired[1].Data

====
